---- MODULE Spec2Model ----
(***************************************************************************)
(* The logdog terminal UI (package tui): the bubbletea Model, its Update   *)
(* handler and the filesystem it lists, reads and prunes.                  *)
(*                                                                         *)
(* A log file is a pair <<p, i>>: p = 0 for the local project's log        *)
(* directory, p >= 1 for the global project p under ~/logdog; i is the     *)
(* file's position in directory-read order.  Go indexes are 0-based, so    *)
(* logFiles[cursor] of the source is logFiles[cursor + 1] here.            *)
(***************************************************************************)
EXTENDS Integers, Sequences, FiniteSets, TLC

VARIABLES
    screen,            \* Model.screen
    language,          \* Model.language # nil
    logFiles,          \* Model.logFiles
    cursor,            \* Model.cursor
    message,           \* Model.message, <<>> is the empty string
    confirmingDelete,  \* Model.confirmingDelete
    confirmingClear,   \* Model.confirmingClear
    deleteFileIndex,   \* Model.deleteFileIndex
    logContent,        \* Model.logContent, <<>> is the empty string
    globalProjects,    \* Model.globalProjects
    selectedProject,   \* Model.selectedProject, 0 is the empty string
    retentionDays,     \* Model.retentionDays
    disk,              \* the log files that exist on disk
    key,               \* the key of the last tea.KeyMsg delivered to Update
    cmd,               \* the tea.Cmd returned by the last Update
    io,                \* the calls the last Update made outside the Model, in
                       \* order, each <<call, argument, succeeded>>
    lines              \* the lines of text a log file on disk holds (the log
                       \* files all hold the same text; nothing here writes it)

vars == <<screen, language, logFiles, cursor, message, confirmingDelete,
          confirmingClear, deleteFileIndex, logContent, globalProjects,
          selectedProject, retentionDays, disk, key, cmd, io, lines>>

model == <<screen, language, logFiles, cursor, message, confirmingDelete,
           confirmingClear, deleteFileIndex, logContent, globalProjects,
           selectedProject, retentionDays>>

(***************************************************************************)
(* Bounds of the environment.                                              *)
(***************************************************************************)
FilesPerDir == 2        \* log files in a populated log directory
NumProjects == 2        \* directories under ~/logdog; only the first holds logs
RetentionSpan == 1      \* how far from the default the explored retention goes

(***************************************************************************)
(* Program constants.                                                      *)
(***************************************************************************)
DefaultRetention == 7
MinRetention == 1
MaxRetention == 365
MainMaxCursor == 4

LocalFiles == {<<0, i>> : i \in 1..FilesPerDir}
ProjectFiles(p) == IF p = 1 THEN {<<p, i>> : i \in 1..FilesPerDir} ELSE {}
AllFiles == LocalFiles \cup UNION {ProjectFiles(p) : p \in 1..NumProjects}

\* time.Now(), in days
Now == 0

\* os.FileInfo.ModTime(), in days.  The odd-numbered files of a directory were
\* last written a day more than the default retention ago, the even-numbered
\* ones exactly the default retention ago.
ModTime(f) == IF f[2] % 2 = 1 THEN Now - (DefaultRetention + 1)
                              ELSE Now - DefaultRetention

Screens == {"Main", "Install", "LogList", "LogView", "Settings", "GlobalProjects"}
Keys == {"q", "up", "down", "enter", "v", "d", "c", "y", "plus", "minus", "esc", "other"}

NoMessage == <<>>
NoContent == <<>>
NoProject == 0

Running == cmd # "Quit"

(***************************************************************************)
(* The filesystem accessors.                                               *)
(***************************************************************************)
\* the files <<p, 1>> .. <<p, n>> that exist on d, in directory-read order
ListDir(p, n, d) ==
    LET all == [i \in 1..n |-> <<p, i>>]
        OnDisk(f) == f \in d
    IN  SelectSeq(all, OnDisk)

\* Language.GetLogPaths(projectPath): the local project's log files
GetLogPaths(d) == ListDir(0, FilesPerDir, d)

\* Model.getLogFilesForProject(projectName): filepath.Walk of ~/logdog/<name>
getLogFilesForProject(p, d) == ListDir(p, FilesPerDir, d)

\* scanGlobalProjects(): the directories under ~/logdog
scanGlobalProjects(n) == [i \in 1..n |-> i]

\* os.Stat(f) succeeds
StatOk(f, d) == f \in d

\* A line of a log file: leading or trailing white space (pad) around a body
\* that is blank, text that is not JSON, a JSON value that is not an object
\* (array, string, number, boolean), the JSON null, or a JSON object. Of an
\* object the four keys formatLogEntry reads are kept: "absent" (no such key),
\* "wrong" (a value of another type than the type assertion asks for),
\* "empty" (the empty string or object) or a value; a timestamp value is
\* "rfc3339" or "plain" as time.Parse accepts it or not.
LineKinds == {"blank", "text", "value", "null", "object"}

NoField == {"absent", "wrong", "empty"}

MkLine(pad, kind, timestamp, level, msg, data) ==
    [pad |-> pad, kind |-> kind, timestamp |-> timestamp, level |-> level,
     message |-> msg, data |-> data]

\* strings.TrimSpace(scanner.Text())
TrimSpace(l) == [l EXCEPT !.pad = FALSE]

\* json.Unmarshal([]byte(line), &logEntry) returns nil: the line is a JSON
\* object, or the JSON null, which leaves the map nil without an error
UnmarshalOk(l) == l.kind \in {"object", "null"}

\* entry[k].(string) and entry["data"].(map[string]any) of the unmarshalled
\* map: the zero value unless the key holds a value of the asserted type
Field(l, k) == IF l.kind = "object" /\ l[k] \notin NoField THEN l[k] ELSE "absent"

\* a piece of rendered text: part of line `of`, in a colour
Piece(l, part, colour) == [of |-> l, part |-> part, colour |-> colour]

\* the raw line, written as it is
RawLine(l) == <<Piece(l, "line", "none")>>

formatLogEntry(entry) ==
    LET timestamp == Field(entry, "timestamp")
        level == Field(entry, "level")
        msg == Field(entry, "message")
        data == Field(entry, "data")
        sp == <<Piece(entry, "space", "none")>>
    IN  (IF timestamp # "absent"
           THEN <<Piece(entry, IF timestamp = "rfc3339" THEN "humanTime" ELSE "timestamp",
                        "240")>> \o sp
           ELSE <<>>)
        \o (IF level # "absent" THEN <<Piece(entry, "level", "byLevel")>> \o sp ELSE <<>>)
        \o (IF msg # "absent" THEN <<Piece(entry, "message", "252")>> ELSE <<>>)
        \o (IF data # "absent" THEN sp \o <<Piece(entry, "data", "99")>> ELSE <<>>)

\* the scanner loop of viewLogContent: the text written for each line that is
\* not blank, in order (each is followed by a newline in the Go string)
RECURSIVE ScanLines(_, _)
ScanLines(rest, formattedLogs) ==
    IF rest = <<>> THEN formattedLogs
    ELSE LET line == TrimSpace(Head(rest))
         IN  IF line.kind = "blank"
               THEN ScanLines(Tail(rest), formattedLogs)
               ELSE ScanLines(Tail(rest),
                              Append(formattedLogs,
                                     IF UnmarshalOk(line) THEN formatLogEntry(line)
                                                          ELSE RawLine(line)))

\* the text viewLogContent builds from the lines of f, with the file it was
\* read from
RenderedContent(f) == <<"log", f, ScanLines(lines, <<>>)>>

Range(s) == {s[i] : i \in DOMAIN s}

\* filepath.Base(f): the file's name without its directory
Base(f) == f[2]

\* the empty file name
NoName == 0

\* renderLogView(): the file name in the "Viewing:" header
renderLogView ==
    IF deleteFileIndex < Len(logFiles) THEN Base(logFiles[deleteFileIndex + 1])
                                       ELSE NoName

\* the success and failure markers in the text of a status message, in order
\* of appearance; a marker at position 1 is the prefix of the text
Markers(msg) ==
    IF msg = <<>> THEN <<>>
    ELSE CASE msg[1] \in {"InstallError", "NoLanguage", "ReadError", "DeleteFailed"}
                -> <<"fail">>
           [] msg[1] \in {"Installed", "Deleted", "Cleared"} -> <<"ok">>
           [] msg[1] = "DeletedWithErrors" -> <<"ok", "fail">>
           [] OTHER -> <<>>

(***************************************************************************)
(* NewModel()                                                              *)
(***************************************************************************)
NewModel ==
    /\ screen = "Main"
    /\ language \in BOOLEAN
    /\ \E n \in 0..NumProjects :
         /\ globalProjects = scanGlobalProjects(n)
         /\ disk = LocalFiles \cup UNION {ProjectFiles(p) : p \in 1..n}
    /\ logFiles = IF language THEN GetLogPaths(disk) ELSE <<>>
    /\ cursor = 0
    /\ message = NoMessage
    /\ confirmingDelete = FALSE
    /\ confirmingClear = FALSE
    /\ deleteFileIndex = 0
    /\ logContent = NoContent
    /\ selectedProject = NoProject
    /\ retentionDays = DefaultRetention

\* the longest log file explored, in lines
MaxLines == 2

\* the lines explored: every combination of the keys formatLogEntry reads
\* being absent or holding a value, an object whose keys hold values of other
\* types or empty ones, and the lines that are no JSON object
LogLines ==
    {MkLine(FALSE, "object", t, l, m, d) :
        t \in {"absent", "plain", "rfc3339"}, l \in {"absent", "set"},
        m \in {"absent", "set"}, d \in {"absent", "set"}}
    \cup {MkLine(FALSE, "object", "wrong", "empty", "wrong", "empty")}
    \cup {MkLine(pad, "text", "absent", "absent", "absent", "absent") : pad \in BOOLEAN}
    \cup {MkLine(FALSE, k, "absent", "absent", "absent", "absent") :
             k \in {"blank", "value", "null"}}

Texts == UNION {[1..n -> LogLines] : n \in 0..MaxLines}

\* a log as the installed logger writes it, after a line of another origin
SampleLog ==
    <<MkLine(TRUE, "text", "absent", "absent", "absent", "absent"),
      MkLine(FALSE, "object", "rfc3339", "set", "set", "set")>>

Init ==
    /\ NewModel
    /\ key = "none"
    /\ cmd = "None"
    /\ io = <<>>
    /\ lines = SampleLog

(***************************************************************************)
(* Model.getMaxCursor()                                                    *)
(***************************************************************************)
getMaxCursor ==
    CASE screen = "Main" -> MainMaxCursor
      [] screen = "LogList" -> Len(logFiles) - 1
      [] screen = "GlobalProjects" -> Len(globalProjects) - 1
      [] OTHER -> 0

\* the guard as it was before bulk clear was added
NotConfirming_DeleteOnly == ~confirmingDelete

NotConfirming == ~confirmingDelete /\ ~confirmingClear

(***************************************************************************)
(* Update: case "q", "ctrl+c"                                              *)
(***************************************************************************)
KeyQuit ==
    /\ Running
    /\ key' = "q"
    /\ UNCHANGED lines
    /\ cmd' = "Quit"
    /\ io' = <<>>
    /\ UNCHANGED <<model, disk>>

(***************************************************************************)
(* Update: case "up", "k"                                                  *)
(***************************************************************************)
\* up that navigates during a pending confirmation
KeyUp_IgnoresPending ==
    /\ Running
    /\ key' = "up"
    /\ UNCHANGED lines
    /\ cmd' = "None"
    /\ io' = <<>>
    /\ cursor' = IF cursor > 0 THEN cursor - 1 ELSE cursor
    /\ message' = NoMessage
    /\ UNCHANGED <<screen, language, logFiles, confirmingDelete, confirmingClear,
                   deleteFileIndex, logContent, globalProjects, selectedProject,
                   retentionDays, disk>>

KeyUp ==
    /\ Running
    /\ key' = "up"
    /\ UNCHANGED lines
    /\ cmd' = "None"
    /\ io' = <<>>
    /\ IF NotConfirming
         THEN /\ cursor' = IF cursor > 0 THEN cursor - 1 ELSE cursor
              /\ message' = NoMessage
         ELSE UNCHANGED <<cursor, message>>
    /\ UNCHANGED <<screen, language, logFiles, confirmingDelete, confirmingClear,
                   deleteFileIndex, logContent, globalProjects, selectedProject,
                   retentionDays, disk>>

(***************************************************************************)
(* Update: case "down", "j"                                                *)
(***************************************************************************)
KeyDown_IgnoresPending ==
    /\ Running
    /\ key' = "down"
    /\ UNCHANGED lines
    /\ cmd' = "None"
    /\ io' = <<>>
    /\ IF TRUE
         THEN /\ cursor' = IF cursor < getMaxCursor THEN cursor + 1 ELSE cursor
              /\ message' = NoMessage
         ELSE UNCHANGED <<cursor, message>>
    /\ UNCHANGED <<screen, language, logFiles, confirmingDelete, confirmingClear,
                   deleteFileIndex, logContent, globalProjects, selectedProject,
                   retentionDays, disk>>

KeyDown ==
    /\ Running
    /\ key' = "down"
    /\ UNCHANGED lines
    /\ cmd' = "None"
    /\ io' = <<>>
    /\ IF NotConfirming
         THEN /\ cursor' = IF cursor < getMaxCursor THEN cursor + 1 ELSE cursor
              /\ message' = NoMessage
         ELSE UNCHANGED <<cursor, message>>
    /\ UNCHANGED <<screen, language, logFiles, confirmingDelete, confirmingClear,
                   deleteFileIndex, logContent, globalProjects, selectedProject,
                   retentionDays, disk>>

(***************************************************************************)
(* Update: case "enter" on the Install screen                              *)
(***************************************************************************)
\* an install that leaves the log file list as it was
InstallEnter_NoRefresh ==
    /\ IF language
         THEN \E ok \in BOOLEAN :
                IF ok
                  THEN /\ message' = <<"Installed">>
                       /\ UNCHANGED logFiles
                       /\ io' = <<<<"Install", 0, TRUE>>>>
                  ELSE /\ message' = <<"InstallError">>
                       /\ UNCHANGED logFiles
                       /\ io' = <<<<"Install", 0, FALSE>>>>
         ELSE /\ message' = <<"NoLanguage">>
              /\ UNCHANGED logFiles
              /\ io' = <<>>
    /\ screen' = "Main"
    /\ cursor' = 0
    /\ cmd' = "ClearScreen"
    /\ UNCHANGED <<language, confirmingDelete, confirmingClear, deleteFileIndex,
                   logContent, globalProjects, selectedProject, retentionDays,
                   disk>>

InstallEnter ==
    /\ IF language
         THEN \E ok \in BOOLEAN :
                IF ok
                  THEN /\ message' = <<"Installed">>
                       /\ logFiles' = GetLogPaths(disk)
                       /\ io' = <<<<"Install", 0, TRUE>>, <<"GetLogPaths", 0, TRUE>>>>
                  ELSE /\ message' = <<"InstallError">>
                       /\ UNCHANGED logFiles
                       /\ io' = <<<<"Install", 0, FALSE>>>>
         ELSE /\ message' = <<"NoLanguage">>
              /\ UNCHANGED logFiles
              /\ io' = <<>>
    /\ screen' = "Main"
    /\ cursor' = 0
    /\ cmd' = "ClearScreen"
    /\ UNCHANGED <<language, confirmingDelete, confirmingClear, deleteFileIndex,
                   logContent, globalProjects, selectedProject, retentionDays,
                   disk>>

(***************************************************************************)
(* Model.handleEnter()                                                     *)
(***************************************************************************)
\* the menu as it was before the global projects entry
handleEnter_OldMenu ==
    CASE screen = "Main" /\ cursor = 4 ->
           /\ cmd' = "Quit"
           /\ io' = <<>>
           /\ UNCHANGED <<model, disk>>
      [] screen = "Main" /\ cursor # 4 ->
           /\ screen' = CASE cursor = 0 -> "Install"
                          [] cursor = 1 -> "LogList"
                          [] cursor = 2 -> "Settings"
                          [] cursor = 3 -> "GlobalProjects"
                          [] OTHER -> screen
           /\ cursor' = 0
           /\ message' = NoMessage
           /\ cmd' = "None"
           /\ io' = <<>>
           /\ UNCHANGED <<language, logFiles, confirmingDelete, confirmingClear,
                          deleteFileIndex, logContent, globalProjects,
                          selectedProject, retentionDays, disk>>
      [] screen = "GlobalProjects" /\ cursor < Len(globalProjects) ->
           /\ selectedProject' = globalProjects[cursor + 1]
           /\ logFiles' = getLogFilesForProject(selectedProject', disk)
           /\ io' = <<<<"Walk", selectedProject', TRUE>>>>
           /\ screen' = "LogList"
           /\ cursor' = 0
           /\ message' = NoMessage
           /\ cmd' = "None"
           /\ UNCHANGED <<language, confirmingDelete, confirmingClear,
                          deleteFileIndex, logContent, globalProjects,
                          retentionDays, disk>>
      [] OTHER ->
           /\ cmd' = "None"
           /\ io' = <<>>
           /\ UNCHANGED <<model, disk>>

\* enter that opens the first project whatever the cursor
handleEnter_FirstProject ==
    CASE screen = "Main" /\ cursor = 4 ->
           /\ cmd' = "Quit"
           /\ io' = <<>>
           /\ UNCHANGED <<model, disk>>
      [] screen = "Main" /\ cursor # 4 ->
           /\ screen' = CASE cursor = 0 -> "Install"
                          [] cursor = 1 -> "LogList"
                          [] cursor = 2 -> "GlobalProjects"
                          [] cursor = 3 -> "Settings"
                          [] OTHER -> screen
           /\ cursor' = 0
           /\ message' = NoMessage
           /\ cmd' = "None"
           /\ io' = <<>>
           /\ UNCHANGED <<language, logFiles, confirmingDelete, confirmingClear,
                          deleteFileIndex, logContent, globalProjects,
                          selectedProject, retentionDays, disk>>
      [] screen = "GlobalProjects" /\ cursor < Len(globalProjects) ->
           /\ selectedProject' = globalProjects[1]
           /\ logFiles' = getLogFilesForProject(selectedProject', disk)
           /\ io' = <<<<"Walk", selectedProject', TRUE>>>>
           /\ screen' = "LogList"
           /\ cursor' = 0
           /\ message' = NoMessage
           /\ cmd' = "None"
           /\ UNCHANGED <<language, confirmingDelete, confirmingClear,
                          deleteFileIndex, logContent, globalProjects,
                          retentionDays, disk>>
      [] OTHER ->
           /\ cmd' = "None"
           /\ io' = <<>>
           /\ UNCHANGED <<model, disk>>

handleEnter ==
    CASE screen = "Main" /\ cursor = 4 ->
           /\ cmd' = "Quit"
           /\ io' = <<>>
           /\ UNCHANGED <<model, disk>>
      [] screen = "Main" /\ cursor # 4 ->
           /\ screen' = CASE cursor = 0 -> "Install"
                          [] cursor = 1 -> "LogList"
                          [] cursor = 2 -> "GlobalProjects"
                          [] cursor = 3 -> "Settings"
                          [] OTHER -> screen
           /\ cursor' = 0
           /\ message' = NoMessage
           /\ cmd' = "None"
           /\ io' = <<>>
           /\ UNCHANGED <<language, logFiles, confirmingDelete, confirmingClear,
                          deleteFileIndex, logContent, globalProjects,
                          selectedProject, retentionDays, disk>>
      [] screen = "GlobalProjects" /\ cursor < Len(globalProjects) ->
           /\ selectedProject' = globalProjects[cursor + 1]
           /\ logFiles' = getLogFilesForProject(selectedProject', disk)
           /\ io' = <<<<"Walk", selectedProject', TRUE>>>>
           /\ screen' = "LogList"
           /\ cursor' = 0
           /\ message' = NoMessage
           /\ cmd' = "None"
           /\ UNCHANGED <<language, confirmingDelete, confirmingClear,
                          deleteFileIndex, logContent, globalProjects,
                          retentionDays, disk>>
      [] OTHER ->
           /\ cmd' = "None"
           /\ io' = <<>>
           /\ UNCHANGED <<model, disk>>

KeyEnter ==
    /\ Running
    /\ key' = "enter"
    /\ UNCHANGED lines
    /\ IF NotConfirming
         THEN IF screen = "Install" THEN InstallEnter ELSE handleEnter
         ELSE /\ cmd' = "None"
              /\ io' = <<>>
              /\ UNCHANGED <<model, disk>>

(***************************************************************************)
(* Model.handleViewLog() and Model.viewLogContent()                        *)
(***************************************************************************)
\* an open error that is dropped without a message
viewLogContent_SilentError ==
    LET filePath == logFiles[cursor + 1]
    IN  \E opened \in {ok \in BOOLEAN : ok => filePath \in disk} :
          /\ io' = <<<<"Open", filePath, opened>>>>
          /\ IF ~opened
            THEN UNCHANGED <<message, screen, logContent, cursor>>
            ELSE /\ screen' = "LogView"
                 /\ logContent' = RenderedContent(filePath)
                 /\ cursor' = 0
                 /\ UNCHANGED message

\* a view that leaves the cursor where it was in the list
viewLogContent_KeepsCursor ==
    LET filePath == logFiles[cursor + 1]
    IN  \E opened \in {ok \in BOOLEAN : ok => filePath \in disk} :
          /\ io' = <<<<"Open", filePath, opened>>>>
          /\ IF ~opened
            THEN /\ message' = <<"ReadError">>
                 /\ UNCHANGED <<screen, logContent, cursor>>
            ELSE /\ screen' = "LogView"
                 /\ logContent' = RenderedContent(filePath)
                 /\ UNCHANGED <<cursor, message>>

viewLogContent ==
    LET filePath == logFiles[cursor + 1]
    IN  \E opened \in {ok \in BOOLEAN : ok => filePath \in disk} :
          /\ io' = <<<<"Open", filePath, opened>>>>
          /\ IF ~opened
            THEN /\ message' = <<"ReadError">>
                 /\ UNCHANGED <<screen, logContent, cursor>>
            ELSE /\ screen' = "LogView"
                 /\ logContent' = RenderedContent(filePath)
                 /\ cursor' = 0
                 /\ UNCHANGED message

handleViewLog ==
    /\ IF cursor < Len(logFiles)
         THEN viewLogContent
         ELSE /\ io' = <<>>
              /\ UNCHANGED <<screen, logContent, cursor, message>>
    /\ cmd' = "None"
    /\ UNCHANGED <<language, logFiles, confirmingDelete, confirmingClear,
                   deleteFileIndex, globalProjects, selectedProject,
                   retentionDays, disk>>

\* the guard shared by case "v", "d" and "c"
OnLogList == screen = "LogList" /\ Len(logFiles) > 0 /\ NotConfirming

KeyV ==
    /\ Running
    /\ key' = "v"
    /\ UNCHANGED lines
    /\ IF OnLogList
         THEN handleViewLog
         ELSE /\ cmd' = "None"
              /\ io' = <<>>
              /\ UNCHANGED <<model, disk>>

(***************************************************************************)
(* Model.handleDeleteLog()                                                 *)
(***************************************************************************)
\* a prompt that does not record the target index
handleDeleteLog_NoIndex ==
    /\ IF cursor < Len(logFiles)
         THEN /\ message' = <<"DeletePrompt", logFiles[cursor + 1]>>
              /\ confirmingDelete' = TRUE
              /\ UNCHANGED deleteFileIndex
         ELSE UNCHANGED <<message, confirmingDelete, deleteFileIndex>>
    /\ cmd' = "None"
    /\ io' = <<>>
    /\ UNCHANGED <<screen, language, logFiles, cursor, confirmingClear,
                   logContent, globalProjects, selectedProject, retentionDays,
                   disk>>

handleDeleteLog ==
    /\ IF cursor < Len(logFiles)
         THEN /\ message' = <<"DeletePrompt", logFiles[cursor + 1]>>
              /\ confirmingDelete' = TRUE
              /\ deleteFileIndex' = cursor
         ELSE UNCHANGED <<message, confirmingDelete, deleteFileIndex>>
    /\ cmd' = "None"
    /\ io' = <<>>
    /\ UNCHANGED <<screen, language, logFiles, cursor, confirmingClear,
                   logContent, globalProjects, selectedProject, retentionDays,
                   disk>>

KeyD ==
    /\ Running
    /\ key' = "d"
    /\ UNCHANGED lines
    /\ IF OnLogList
         THEN handleDeleteLog
         ELSE /\ cmd' = "None"
              /\ io' = <<>>
              /\ UNCHANGED <<model, disk>>

(***************************************************************************)
(* The retention filter of handleClearOldLogs and confirmClearOldLogs:     *)
(* os.Stat succeeds and info.ModTime().Before(cutoffDate).                 *)
(***************************************************************************)
cutoffDate == Now - retentionDays

\* !After instead of Before: a file written exactly at the cutoff counts as old
IsOld_NotAfter(f) == StatOk(f, disk) /\ ModTime(f) <= cutoffDate

IsOld(f) == StatOk(f, disk) /\ ModTime(f) < cutoffDate

(***************************************************************************)
(* Model.handleClearOldLogs()                                              *)
(***************************************************************************)
\* a bulk clear that asks for confirmation with nothing to clear
handleClearOldLogs_AlwaysConfirms ==
    LET oldLogs == SelectSeq(logFiles, IsOld)
    IN  /\ io' = [i \in DOMAIN logFiles |->
                    <<"Stat", logFiles[i], StatOk(logFiles[i], disk)>>]
        /\ IF Len(oldLogs) = 0
             THEN /\ message' = <<"NoOldLogs", retentionDays>>
                  /\ confirmingClear' = TRUE
             ELSE /\ message' = <<"ClearPrompt", Len(oldLogs), retentionDays>>
                  /\ confirmingClear' = TRUE
        /\ cmd' = "None"
        /\ UNCHANGED <<screen, language, logFiles, cursor, confirmingDelete,
                       deleteFileIndex, logContent, globalProjects,
                       selectedProject, retentionDays, disk>>

handleClearOldLogs ==
    LET oldLogs == SelectSeq(logFiles, IsOld)
    IN  /\ io' = [i \in DOMAIN logFiles |->
                    <<"Stat", logFiles[i], StatOk(logFiles[i], disk)>>]
        /\ IF Len(oldLogs) = 0
             THEN /\ message' = <<"NoOldLogs", retentionDays>>
                  /\ UNCHANGED confirmingClear
             ELSE /\ message' = <<"ClearPrompt", Len(oldLogs), retentionDays>>
                  /\ confirmingClear' = TRUE
        /\ cmd' = "None"
        /\ UNCHANGED <<screen, language, logFiles, cursor, confirmingDelete,
                       deleteFileIndex, logContent, globalProjects,
                       selectedProject, retentionDays, disk>>

KeyC ==
    /\ Running
    /\ key' = "c"
    /\ UNCHANGED lines
    /\ IF OnLogList
         THEN handleClearOldLogs
         ELSE /\ cmd' = "None"
              /\ io' = <<>>
              /\ UNCHANGED <<model, disk>>

(***************************************************************************)
(* Model.confirmDelete()                                                   *)
(***************************************************************************)
confirmDelete ==
    /\ IF deleteFileIndex < Len(logFiles)
         THEN LET filePath == logFiles[deleteFileIndex + 1]
              IN  \E removed \in {ok \in BOOLEAN : ok => filePath \in disk} :
                    IF ~removed
                      THEN /\ message' = <<"DeleteFailed">>
                           /\ io' = <<<<"Remove", filePath, FALSE>>>>
                           /\ UNCHANGED <<disk, logFiles, cursor>>
                      ELSE /\ message' = <<"Deleted", filePath>>
                           /\ io' = <<<<"Remove", filePath, TRUE>>>> \o
                                    (IF language THEN <<<<"GetLogPaths", 0, TRUE>>>>
                                                 ELSE <<>>)
                           /\ disk' = disk \ {filePath}
                           /\ logFiles' = IF language THEN GetLogPaths(disk')
                                                      ELSE logFiles
                           /\ cursor' = IF cursor >= Len(logFiles') /\ Len(logFiles') > 0
                                          THEN Len(logFiles') - 1
                                          ELSE cursor
         ELSE /\ io' = <<>>
              /\ UNCHANGED <<message, disk, logFiles, cursor>>
    /\ confirmingDelete' = FALSE
    /\ cmd' = "None"
    /\ UNCHANGED <<screen, language, confirmingClear, deleteFileIndex, logContent,
                   globalProjects, selectedProject, retentionDays>>

(***************************************************************************)
(* Model.confirmClearOldLogs()                                             *)
(***************************************************************************)
\* the loop over m.logFiles: d is the disk so far, fails the files whose
\* os.Remove returns an error, acc the deletedCount, errors and calls so far
\* the loop with a return on the first os.Remove error
RECURSIVE ClearLoop_AbortsOnError(_, _, _, _)
ClearLoop_AbortsOnError(files, d, fails, acc) ==
    IF files = <<>>
      THEN [disk |-> d, deletedCount |-> acc.deletedCount, errors |-> acc.errors,
            io |-> acc.io]
      ELSE LET logFile == Head(files)
               stat == <<"Stat", logFile, StatOk(logFile, d)>>
           IN  IF StatOk(logFile, d) /\ ModTime(logFile) < cutoffDate
                 THEN IF logFile \in fails
                        THEN [disk |-> d, deletedCount |-> acc.deletedCount,
                              errors |-> Append(acc.errors, logFile),
                              io |-> acc.io \o <<stat, <<"Remove", logFile, FALSE>>>>]
                        ELSE ClearLoop_AbortsOnError(Tail(files), d \ {logFile}, fails,
                               [acc EXCEPT !.deletedCount = @ + 1,
                                           !.io = @ \o <<stat, <<"Remove", logFile, TRUE>>>>])
                 ELSE ClearLoop_AbortsOnError(Tail(files), d, fails,
                                [acc EXCEPT !.io = Append(@, stat)])

RECURSIVE ClearLoop(_, _, _, _)
ClearLoop(files, d, fails, acc) ==
    IF files = <<>>
      THEN [disk |-> d, deletedCount |-> acc.deletedCount, errors |-> acc.errors,
            io |-> acc.io]
      ELSE LET logFile == Head(files)
               stat == <<"Stat", logFile, StatOk(logFile, d)>>
           IN  IF StatOk(logFile, d) /\ ModTime(logFile) < cutoffDate
                 THEN IF logFile \in fails
                        THEN ClearLoop(Tail(files), d, fails,
                               [acc EXCEPT !.errors = Append(@, logFile),
                                           !.io = @ \o <<stat, <<"Remove", logFile, FALSE>>>>])
                        ELSE ClearLoop(Tail(files), d \ {logFile}, fails,
                               [acc EXCEPT !.deletedCount = @ + 1,
                                           !.io = @ \o <<stat, <<"Remove", logFile, TRUE>>>>])
                 ELSE ClearLoop(Tail(files), d, fails,
                                [acc EXCEPT !.io = Append(@, stat)])

confirmClearOldLogs ==
    \E fails \in SUBSET {f \in Range(logFiles) : IsOld(f)} :
      LET r == ClearLoop(logFiles, disk, fails,
                         [deletedCount |-> 0, errors |-> <<>>, io |-> <<>>])
      IN  /\ disk' = r.disk
          /\ logFiles' = IF language THEN GetLogPaths(disk') ELSE logFiles
          /\ io' = r.io \o (IF language THEN <<<<"GetLogPaths", 0, TRUE>>>> ELSE <<>>)
          /\ cursor' = IF cursor >= Len(logFiles') /\ Len(logFiles') > 0
                         THEN Len(logFiles') - 1
                         ELSE IF Len(logFiles') = 0 THEN 0 ELSE cursor
          /\ message' = IF Len(r.errors) > 0
                          THEN <<"DeletedWithErrors", r.deletedCount, r.errors>>
                          ELSE <<"Cleared", r.deletedCount>>
          /\ confirmingClear' = FALSE
          /\ cmd' = "None"
          /\ UNCHANGED <<screen, language, confirmingDelete, deleteFileIndex,
                         logContent, globalProjects, selectedProject,
                         retentionDays>>

(***************************************************************************)
(* Update: case "y"                                                        *)
(***************************************************************************)
\* y that deletes without a pending confirmation
KeyY_Unconfirmed ==
    /\ Running
    /\ key' = "y"
    /\ UNCHANGED lines
    /\ IF confirmingClear THEN confirmClearOldLogs ELSE confirmDelete

KeyY ==
    /\ Running
    /\ key' = "y"
    /\ UNCHANGED lines
    /\ IF confirmingDelete
         THEN confirmDelete
         ELSE IF confirmingClear
                THEN confirmClearOldLogs
                ELSE /\ cmd' = "None"
                     /\ io' = <<>>
                     /\ UNCHANGED <<model, disk>>

(***************************************************************************)
(* Update: case "+", "=".  With capped, the key is explored only while the *)
(* new value stays within RetentionSpan of the default.                    *)
(***************************************************************************)
PressPlus_CeilingOffByOne(capped) ==
    /\ Running
    /\ key' = "plus"
    /\ UNCHANGED lines
    /\ cmd' = "None"
    /\ io' = <<>>
    /\ IF screen = "Settings" /\ NotConfirming /\ retentionDays <= MaxRetention
         THEN /\ capped => retentionDays < DefaultRetention + RetentionSpan
              /\ retentionDays' = retentionDays + 1
              /\ message' = <<"RetentionSet", retentionDays'>>
         ELSE UNCHANGED <<retentionDays, message>>
    /\ UNCHANGED <<screen, language, logFiles, cursor, confirmingDelete,
                   confirmingClear, deleteFileIndex, logContent, globalProjects,
                   selectedProject, disk>>

PressPlus(capped) ==
    /\ Running
    /\ key' = "plus"
    /\ UNCHANGED lines
    /\ cmd' = "None"
    /\ io' = <<>>
    /\ IF screen = "Settings" /\ NotConfirming /\ retentionDays < MaxRetention
         THEN /\ capped => retentionDays < DefaultRetention + RetentionSpan
              /\ retentionDays' = retentionDays + 1
              /\ message' = <<"RetentionSet", retentionDays'>>
         ELSE UNCHANGED <<retentionDays, message>>
    /\ UNCHANGED <<screen, language, logFiles, cursor, confirmingDelete,
                   confirmingClear, deleteFileIndex, logContent, globalProjects,
                   selectedProject, disk>>

KeyPlus == PressPlus(TRUE)

(***************************************************************************)
(* Update: case "-", "_".  With capped, the key is explored only while the *)
(* new value stays within RetentionSpan of the default.                    *)
(***************************************************************************)
PressMinus(capped) ==
    /\ Running
    /\ key' = "minus"
    /\ UNCHANGED lines
    /\ cmd' = "None"
    /\ io' = <<>>
    /\ IF screen = "Settings" /\ NotConfirming /\ retentionDays > MinRetention
         THEN /\ capped => retentionDays > DefaultRetention - RetentionSpan
              /\ retentionDays' = retentionDays - 1
              /\ message' = <<"RetentionSet", retentionDays'>>
         ELSE UNCHANGED <<retentionDays, message>>
    /\ UNCHANGED <<screen, language, logFiles, cursor, confirmingDelete,
                   confirmingClear, deleteFileIndex, logContent, globalProjects,
                   selectedProject, disk>>

KeyMinus == PressMinus(TRUE)

(***************************************************************************)
(* Update: case "esc"                                                      *)
(***************************************************************************)
\* esc as it was before global projects: selectedProject is not reset
KeyEsc_KeepsProject ==
    /\ Running
    /\ key' = "esc"
    /\ UNCHANGED lines
    /\ cmd' = "None"
    /\ io' = <<>>
    /\ IF confirmingDelete \/ confirmingClear
         THEN /\ confirmingDelete' = FALSE
              /\ confirmingClear' = FALSE
              /\ message' = NoMessage
              /\ UNCHANGED <<screen, cursor, logContent>>
         ELSE /\ screen' = "Main"
              /\ cursor' = 0
              /\ message' = NoMessage
              /\ confirmingDelete' = FALSE
              /\ confirmingClear' = FALSE
              /\ logContent' = NoContent
    /\ UNCHANGED <<language, logFiles, deleteFileIndex, globalProjects,
                   selectedProject, retentionDays, disk>>

\* esc that leaves the viewed content in place
KeyEsc_KeepsContent ==
    /\ Running
    /\ key' = "esc"
    /\ UNCHANGED lines
    /\ cmd' = "None"
    /\ io' = <<>>
    /\ IF confirmingDelete \/ confirmingClear
         THEN /\ confirmingDelete' = FALSE
              /\ confirmingClear' = FALSE
              /\ message' = NoMessage
              /\ UNCHANGED <<screen, cursor, logContent, selectedProject>>
         ELSE /\ screen' = "Main"
              /\ cursor' = 0
              /\ message' = NoMessage
              /\ confirmingDelete' = FALSE
              /\ confirmingClear' = FALSE
              /\ UNCHANGED logContent
              /\ selectedProject' = NoProject
    /\ UNCHANGED <<language, logFiles, deleteFileIndex, globalProjects,
                   retentionDays, disk>>

KeyEsc_QuitsOnMain ==
    /\ Running
    /\ key' = "esc"
    /\ UNCHANGED lines
    /\ cmd' = IF screen = "Main" /\ NotConfirming THEN "Quit" ELSE "None"
    /\ io' = <<>>
    /\ IF confirmingDelete \/ confirmingClear
         THEN /\ confirmingDelete' = FALSE
              /\ confirmingClear' = FALSE
              /\ message' = NoMessage
              /\ UNCHANGED <<screen, cursor, logContent, selectedProject>>
         ELSE /\ screen' = "Main"
              /\ cursor' = 0
              /\ message' = NoMessage
              /\ confirmingDelete' = FALSE
              /\ confirmingClear' = FALSE
              /\ logContent' = NoContent
              /\ selectedProject' = NoProject
    /\ UNCHANGED <<language, logFiles, deleteFileIndex, globalProjects,
                   retentionDays, disk>>

KeyEsc_LeavesWhilePending ==
    /\ Running
    /\ key' = "esc"
    /\ UNCHANGED lines
    /\ cmd' = "None"
    /\ io' = <<>>
    /\ IF FALSE
         THEN /\ confirmingDelete' = FALSE
              /\ confirmingClear' = FALSE
              /\ message' = NoMessage
              /\ UNCHANGED <<screen, cursor, logContent, selectedProject>>
         ELSE /\ screen' = "Main"
              /\ cursor' = 0
              /\ message' = NoMessage
              /\ confirmingDelete' = FALSE
              /\ confirmingClear' = FALSE
              /\ logContent' = NoContent
              /\ selectedProject' = NoProject
    /\ UNCHANGED <<language, logFiles, deleteFileIndex, globalProjects,
                   retentionDays, disk>>

KeyEsc_IgnoredWhilePending ==
    /\ Running
    /\ key' = "esc"
    /\ UNCHANGED lines
    /\ cmd' = "None"
    /\ io' = <<>>
    /\ IF confirmingDelete \/ confirmingClear
         THEN /\ UNCHANGED confirmingDelete
              /\ UNCHANGED confirmingClear
              /\ message' = NoMessage
              /\ UNCHANGED <<screen, cursor, logContent, selectedProject>>
         ELSE /\ screen' = "Main"
              /\ cursor' = 0
              /\ message' = NoMessage
              /\ confirmingDelete' = FALSE
              /\ confirmingClear' = FALSE
              /\ logContent' = NoContent
              /\ selectedProject' = NoProject
    /\ UNCHANGED <<language, logFiles, deleteFileIndex, globalProjects,
                   retentionDays, disk>>

KeyEsc ==
    /\ Running
    /\ key' = "esc"
    /\ UNCHANGED lines
    /\ cmd' = "None"
    /\ io' = <<>>
    /\ IF confirmingDelete \/ confirmingClear
         THEN /\ confirmingDelete' = FALSE
              /\ confirmingClear' = FALSE
              /\ message' = NoMessage
              /\ UNCHANGED <<screen, cursor, logContent, selectedProject>>
         ELSE /\ screen' = "Main"
              /\ cursor' = 0
              /\ message' = NoMessage
              /\ confirmingDelete' = FALSE
              /\ confirmingClear' = FALSE
              /\ logContent' = NoContent
              /\ selectedProject' = NoProject
    /\ UNCHANGED <<language, logFiles, deleteFileIndex, globalProjects,
                   retentionDays, disk>>

(***************************************************************************)
(* Update: default (any key without a case of its own)                     *)
(***************************************************************************)
KeyOther ==
    /\ Running
    /\ key' = "other"
    /\ UNCHANGED lines
    /\ cmd' = "None"
    /\ io' = <<>>
    /\ IF confirmingDelete \/ confirmingClear
         THEN /\ confirmingDelete' = FALSE
              /\ confirmingClear' = FALSE
              /\ message' = NoMessage
         ELSE /\ message' = NoMessage
              /\ UNCHANGED <<confirmingDelete, confirmingClear>>
    /\ UNCHANGED <<screen, language, logFiles, cursor, deleteFileIndex,
                   logContent, globalProjects, selectedProject, retentionDays,
                   disk>>

Next ==
    \/ KeyQuit
    \/ KeyUp
    \/ KeyDown
    \/ KeyEnter
    \/ KeyV
    \/ KeyD
    \/ KeyC
    \/ KeyY
    \/ KeyPlus
    \/ KeyMinus
    \/ KeyEsc
    \/ KeyOther

Spec == Init /\ [][Next]_vars

(***************************************************************************)
(* The same program started where ~/logdog does not exist, with the        *)
(* retention explored over its whole range.                                *)
(***************************************************************************)
KeyPlusFull == PressPlus(FALSE)

KeyMinusFull == PressMinus(FALSE)

InitSettings == Init /\ globalProjects = <<>>

NextSettings ==
    \/ KeyQuit
    \/ KeyUp
    \/ KeyDown
    \/ KeyEnter
    \/ KeyV
    \/ KeyD
    \/ KeyC
    \/ KeyY
    \/ KeyPlusFull
    \/ KeyMinusFull
    \/ KeyEsc
    \/ KeyOther

SpecSettings == InitSettings /\ [][NextSettings]_vars

\* Viewing log files of any content: a detected project with its local log
\* files, and the keys that lead to LogView and back.
InitView ==
    /\ NewModel
    /\ language
    /\ globalProjects = <<>>
    /\ key = "none"
    /\ cmd = "None"
    /\ io = <<>>
    /\ lines \in Texts

NextView ==
    \/ KeyDown
    \/ KeyEnter
    \/ KeyV
    \/ KeyEsc

SpecView == InitView /\ [][NextView]_vars

TypeOK ==
    /\ lines \in Texts
    /\ screen \in Screens
    /\ language \in BOOLEAN
    /\ Range(logFiles) \subseteq AllFiles
    /\ cursor \in Nat
    /\ confirmingDelete \in BOOLEAN
    /\ confirmingClear \in BOOLEAN
    /\ deleteFileIndex \in Nat
    /\ selectedProject \in 0..NumProjects
    /\ retentionDays \in Int
    /\ disk \subseteq AllFiles
    /\ key \in Keys \cup {"none"}
    /\ cmd \in {"None", "Quit", "ClearScreen"}

(***************************************************************************)
(* Properties.                                                             *)
(***************************************************************************)
Pending == confirmingDelete \/ confirmingClear

MessageKind == IF message = NoMessage THEN "" ELSE message[1]

\* the upper cursor bound the data model states: the option count less one on
\* Main, the list length less one on LogList and GlobalProjects, 0 on an empty
\* list and on the other screens
StatedMaxCursor ==
    CASE screen = "Main" -> 4
      [] screen = "LogList" ->
           IF Len(logFiles) = 0 THEN 0 ELSE Len(logFiles) - 1
      [] screen = "GlobalProjects" ->
           IF Len(globalProjects) = 0 THEN 0 ELSE Len(globalProjects) - 1
      [] OTHER -> 0

\* C1: in every reachable state the cursor is within [0, maxCursor(screen)],
\* and it is 0 whenever the list of the screen is empty.
C1_CursorInBounds == cursor >= 0 /\ cursor <= StatedMaxCursor

\* C2: confirmingDelete and confirmingClear are never both true.
C2_ConfirmationExclusive == ~(confirmingDelete /\ confirmingClear)

C2_Witness == confirmingClear /\ key = "c" /\ deleteFileIndex > 0

\* a step in which y confirms a pending delete and the file is removed
DeleteSucceeds == confirmingDelete /\ key' = "y" /\ disk' # disk

\* C3: after y in pending-delete removed the file at the recorded index, the
\* removed path is not in logFiles and the cursor is within the new list,
\* whichever list is browsed and whether or not a language was detected.
C3_DeleteThenRefresh ==
    [][DeleteSucceeds =>
         /\ logFiles[deleteFileIndex + 1] \notin Range(logFiles')
         /\ Len(logFiles') > 0 => cursor' <= Len(logFiles') - 1]_vars

\* the log files on disk d of the context the UI displays in the next state
DisplayedListing(d) ==
    IF selectedProject' # NoProject
      THEN getLogFilesForProject(selectedProject', d)
      ELSE IF language THEN GetLogPaths(d) ELSE <<>>

\* C4: right after a successful install, a successful confirmed delete and a
\* confirmed bulk clear, logFiles is a fresh listing of the log files on disk
\* of the context being displayed.
C4_FreshListingAfterMutation ==
    [][(\/ DeleteSucceeds
        \/ confirmingClear /\ key' = "y"
        \/ screen = "Install" /\ key' = "enter" /\ message' = <<"Installed">>)
       => logFiles' = DisplayedListing(disk')]_vars

\* C5: while a confirmation is pending, every key other than y cancels it:
\* the flag is false and the message empty afterwards.
C5_AnyOtherKeyCancels ==
    [][(Pending /\ key' # "y")
       => ~confirmingDelete' /\ ~confirmingClear' /\ message' = NoMessage]_vars

\* C6: a file is removed only by y pressed while a confirmation is pending.
C6_DeletionOnlyOnConfirm ==
    [][disk' # disk => key' = "y" /\ Pending /\ disk' \subseteq disk]_vars

C6_Witness == key = "y" /\ MessageKind = "Deleted" /\ LocalFiles \ disk # {}

\* C7: while either confirmation flag is true, up and down leave the cursor
\* unchanged.
C7_NoNavigationWhilePending ==
    [][(Pending /\ key' \in {"up", "down"}) => cursor' = cursor]_vars

C7_Witness == confirmingClear /\ key = "up" /\ cursor > 0

\* the state esc leaves when it returns to Main
BackOnMain ==
    /\ screen' = "Main"
    /\ cursor' = 0
    /\ message' = NoMessage
    /\ logContent' = NoContent
    /\ selectedProject' = NoProject
    /\ ~confirmingDelete'
    /\ ~confirmingClear'

\* C8, as stated: esc on any screen but Main, whether or not a confirmation is
\* pending, yields Main with cursor 0, no message, no content, no selected
\* project and no pending confirmation.
C8_EscAlwaysReturnsToMain ==
    [][(screen # "Main" /\ key' = "esc") => BackOnMain]_vars

\* C8, amended: esc on any screen but Main with no confirmation pending yields
\* that state; with a confirmation pending esc clears both flags and the
\* message and leaves the screen, the cursor, the content and the selected
\* project as they are.
C8_EscReturnsToMainUnlessPending ==
    [][(screen # "Main" /\ key' = "esc") =>
         IF Pending
           THEN /\ ~confirmingDelete'
                /\ ~confirmingClear'
                /\ message' = NoMessage
                /\ UNCHANGED <<screen, cursor, logContent, selectedProject>>
           ELSE BackOnMain]_vars

C8_Witness ==
    /\ key = "esc"
    /\ screen = "Main"
    /\ Range(logFiles) \cap ProjectFiles(1) # {}
    /\ selectedProject = NoProject

\* C9: retentionDays starts at 7 and stays within [1, 365]; it changes only on
\* the Settings screen, by +1 on plus (not at 365) and by -1 on minus (not at
\* 1), and plus and minus there do change it away from the limits.
C9_RetentionBounded ==
    /\ retentionDays = 7
    /\ [](retentionDays >= 1 /\ retentionDays <= 365)
    /\ [][/\ retentionDays' # retentionDays =>
               /\ screen = "Settings"
               /\ \/ key' = "plus" /\ retentionDays' = retentionDays + 1
                  \/ key' = "minus" /\ retentionDays' = retentionDays - 1
          /\ (screen = "Settings" /\ key' = "plus" /\ retentionDays < 365)
               => retentionDays' = retentionDays + 1
          /\ (screen = "Settings" /\ key' = "minus" /\ retentionDays > 1)
               => retentionDays' = retentionDays - 1]_vars

C9_Witness == retentionDays = 365 /\ key = "plus" /\ screen = "Settings"

\* the files of logFiles that exist and were last modified strictly before the
\* present day minus retentionDays days
OlderThanRetention ==
    {f \in Range(logFiles) : f \in disk /\ ModTime(f) + retentionDays < Now}

\* C10: the retention filter of bulk clear selects exactly the files of
\* logFiles last modified strictly before now minus retentionDays days: c
\* counts exactly these, y removes or reports exactly these, and a newer file
\* or one whose stat fails is never removed.
C10_RetentionFilter ==
    [][/\ (OnLogList /\ key' = "c") =>
            IF OlderThanRetention = {}
              THEN message' = <<"NoOldLogs", retentionDays>> /\ ~confirmingClear'
              ELSE /\ message' = <<"ClearPrompt", Cardinality(OlderThanRetention),
                                   retentionDays>>
                   /\ confirmingClear'
       /\ (confirmingClear /\ key' = "y") =>
            /\ disk \ disk' \subseteq OlderThanRetention
            /\ message'[2] + (IF message'[1] = "Cleared" THEN 0 ELSE Len(message'[3]))
                 = Cardinality(OlderThanRetention)
            /\ message'[2] = Cardinality(disk \ disk')]_vars

C10_Witness ==
    /\ confirmingClear
    /\ key = "c"
    /\ \E f \in Range(logFiles) : f \notin disk

\* the files the calls named op of the last Update were made on, and those of
\* them that succeeded
CalledOn(op) == {io[i][2] : i \in {j \in DOMAIN io : io[j][1] = op}}

Succeeded(op) == {io[i][2] : i \in {j \in DOMAIN io : io[j][1] = op /\ io[j][3]}}

NumCalls(op) == Cardinality({j \in DOMAIN io : io[j][1] = op})

\* C11: on y in pending-clear a failed removal does not abort the batch:
\* removal is attempted for every file older than the threshold, the files
\* whose removal succeeds are gone, the errors and the success count are in
\* one message, and confirmingClear is false afterwards.
C11_BulkClearContinuesAfterError ==
    [][(confirmingClear /\ key' = "y") =>
         LET failed(f) == f \in CalledOn("Remove")' \ Succeeded("Remove")'
         IN  /\ CalledOn("Remove")' = OlderThanRetention
             /\ NumCalls("Remove")' = Cardinality(OlderThanRetention)
             /\ disk' = disk \ Succeeded("Remove")'
             /\ ~confirmingClear'
             /\ message' =
                  IF Succeeded("Remove")' = CalledOn("Remove")'
                    THEN <<"Cleared", Cardinality(Succeeded("Remove")')>>
                    ELSE <<"DeletedWithErrors", Cardinality(Succeeded("Remove")'),
                           SelectSeq(logFiles, failed)>>]_vars

C11_Witness ==
    /\ key = "y"
    /\ MessageKind = "DeletedWithErrors"
    /\ \E i, j \in DOMAIN io :
         /\ i < j
         /\ io[i][1] = "Remove" /\ ~io[i][3]
         /\ io[j][1] = "Remove" /\ io[j][3]

\* a call of the last Update whose error the UI is to surface
ErrorToSurface ==
    \E i \in DOMAIN io : io[i][1] \in {"Install", "Open", "Remove"} /\ ~io[i][3]

\* C12, as stated: every install, read, single delete and bulk clear failure
\* leaves a status message prefixed with the failure marker.
C12_ErrorsPrefixedWithMarker ==
    ErrorToSurface => Markers(message) # <<>> /\ Markers(message)[1] = "fail"

\* C12, amended: every such failure leaves a non-empty status message that
\* carries the failure marker: as its prefix for install, read and single
\* delete failures, and after the success count for bulk clear.
C12_ErrorsCarryMarker ==
    ErrorToSurface =>
        IF MessageKind = "DeletedWithErrors"
          THEN key = "y" /\ Markers(message) = <<"ok", "fail">>
          ELSE Markers(message) = <<"fail">>

C12_Witness == MessageKind = "DeletedWithErrors" /\ ErrorToSurface

\* C13: when the removal fails on y in pending-delete, the error is in the
\* status message, confirmingDelete becomes false and the log file list is
\* queried again.
C13_FailedDeleteRelists ==
    [][(confirmingDelete /\ key' = "y" /\ ErrorToSurface') =>
         /\ Markers(message') = <<"fail">>
         /\ ~confirmingDelete'
         /\ NumCalls("GetLogPaths")' + NumCalls("Walk")' > 0]_vars

\* the fields enter on Main leaves alone
MainEnterFrame ==
    UNCHANGED <<language, logFiles, confirmingDelete, confirmingClear,
                deleteFileIndex, logContent, globalProjects, selectedProject,
                retentionDays, disk>>

\* C14: on Main, enter goes to Install (0), LogList (1), GlobalProjects (2),
\* Settings (3) or quits (4); but for quit the cursor is 0 and the message
\* empty afterwards, and nothing else changes.
C14_MainMenu ==
    [][(screen = "Main" /\ key' = "enter") =>
         IF cursor = 4
           THEN cmd' = "Quit" /\ UNCHANGED model
           ELSE /\ screen' = <<"Install", "LogList", "GlobalProjects", "Settings">>[cursor + 1]
                /\ cursor' = 0
                /\ message' = NoMessage
                /\ cmd' # "Quit"
                /\ MainEnterFrame]_vars

C14_Witness == screen = "Settings" /\ key = "enter"

\* C15: enter on Install returns to Main with cursor 0, a message and a
\* redraw; with a language it calls install once and sets a success message
\* and the refreshed list, or an error message; without one it calls nothing
\* and changes no file.
C15_InstallEnter ==
    [][(screen = "Install" /\ key' = "enter") =>
         /\ screen' = "Main"
         /\ cursor' = 0
         /\ message' # NoMessage
         /\ cmd' = "ClearScreen"
         /\ IF language
              THEN /\ NumCalls("Install")' = 1
                   /\ IF Succeeded("Install")' # {}
                        THEN /\ Markers(message') = <<"ok">>
                             /\ Range(logFiles') = LocalFiles \cap disk
                        ELSE /\ Markers(message') = <<"fail">>
                             /\ logFiles' = logFiles
              ELSE /\ io' = <<>>
                   /\ disk' = disk
                   /\ logFiles' = logFiles
                   /\ Markers(message') = <<"fail">>]_vars

C15_Witness ==
    /\ key = "enter"
    /\ cmd = "ClearScreen"
    /\ message = <<"Installed">>
    /\ selectedProject = NoProject
    /\ LocalFiles \ disk # {}

\* C16: v on LogList with a valid selection opens the file at the cursor; if
\* that succeeds the screen is LogView, logContent is that file's rendering
\* and the cursor 0; if not, the screen, logContent and the cursor stay and an
\* error message is set.
C16_ViewLog ==
    [][(OnLogList /\ cursor < Len(logFiles) /\ key' = "v") =>
         /\ NumCalls("Open")' = 1
         /\ CalledOn("Open")' = {logFiles[cursor + 1]}
         /\ IF Succeeded("Open")' # {}
              THEN /\ screen' = "LogView"
                   /\ logContent' = RenderedContent(logFiles[cursor + 1])
                   /\ cursor' = 0
              ELSE /\ screen' = "LogList"
                   /\ logContent' = logContent
                   /\ cursor' = cursor
                   /\ Markers(message') = <<"fail">>]_vars

C16_Witness ==
    /\ key = "v"
    /\ screen = "LogView"
    /\ logContent # NoContent
    /\ logContent[2][2] > 1

\* C17: d on LogList with a valid selection enters pending-delete, records
\* the cursor as the target and prompts for the file there; a following y
\* attempts to remove that file and no other.
C17_DeleteTargetsPromptedFile ==
    /\ [](confirmingDelete =>
            /\ deleteFileIndex < Len(logFiles)
            /\ message = <<"DeletePrompt", logFiles[deleteFileIndex + 1]>>)
    /\ [][/\ (OnLogList /\ cursor < Len(logFiles) /\ key' = "d") =>
               /\ confirmingDelete'
               /\ deleteFileIndex' = cursor
               /\ message' = <<"DeletePrompt", logFiles[cursor + 1]>>
               /\ logFiles' = logFiles
          /\ (confirmingDelete /\ key' = "y") =>
               /\ NumCalls("Remove")' = 1
               /\ CalledOn("Remove")' = {message[2]}
               /\ disk \ disk' \subseteq {message[2]}]_vars

C17_Witness == key = "y" /\ MessageKind = "Deleted" /\ deleteFileIndex = 1

\* the fields c leaves alone
ClearPromptFrame ==
    UNCHANGED <<screen, language, logFiles, cursor, confirmingDelete,
                deleteFileIndex, logContent, globalProjects, selectedProject,
                retentionDays, disk>>

\* what c does where the list has files to examine
ClearPromptOutcome ==
    /\ ClearPromptFrame
    /\ IF OlderThanRetention = {}
         THEN /\ MessageKind' = "NoOldLogs"
              /\ ~confirmingClear'
         ELSE /\ confirmingClear'
              /\ MessageKind' = "ClearPrompt"
              /\ message'[2] = Cardinality(OlderThanRetention)

\* C18, as stated: c on LogList with no confirmation pending reports 'none
\* found' and stays when no file, the empty list included, is older than the
\* threshold; otherwise it sets confirmingClear and a message with the count.
C18_ClearPromptAnyList ==
    [][(screen = "LogList" /\ NotConfirming /\ key' = "c") => ClearPromptOutcome]_vars

\* C18, amended: so it is on a non-empty list; on an empty list c changes
\* nothing and reports nothing.
C18_ClearPromptNonEmptyList ==
    [][(screen = "LogList" /\ NotConfirming /\ key' = "c") =>
         IF Len(logFiles) > 0
           THEN ClearPromptOutcome
           ELSE UNCHANGED model /\ disk' = disk /\ io' = <<>>]_vars

C18_Witness == key = "c" /\ MessageKind = "NoOldLogs" /\ Len(logFiles) > 0

\* C19: enter on GlobalProjects with a valid selection selects
\* globalProjects[cursor], lists that project's log files and goes to LogList
\* with cursor 0 and no message; with no project it changes nothing.
C19_SelectProject ==
    [][(screen = "GlobalProjects" /\ key' = "enter") =>
         IF cursor < Len(globalProjects)
           THEN /\ selectedProject' = globalProjects[cursor + 1]
                /\ Range(logFiles') = {f \in disk : f[1] = selectedProject'}
                /\ Len(logFiles') = Cardinality(Range(logFiles'))
                /\ screen' = "LogList"
                /\ cursor' = 0
                /\ message' = NoMessage
           ELSE UNCHANGED model /\ disk' = disk]_vars

C19_Witness == key = "enter" /\ screen = "LogList" /\ selectedProject = 2

\* C20: logContent is non-empty only on LogView: only v entering LogView
\* sets it, and esc leaving LogView empties it.
C20_ContentOnlyOnLogView ==
    /\ [](logContent # NoContent => screen = "LogView")
    /\ [][/\ logContent' # logContent =>
               \/ key' = "v" /\ screen' = "LogView"
               \/ key' = "esc" /\ screen = "LogView" /\ logContent' = NoContent
          /\ (screen = "LogView" /\ key' = "esc") =>
               logContent' = NoContent /\ screen' = "Main"]_vars

C20_Witness == screen = "LogView" /\ logContent # NoContent /\ key = "other"

\* C21: the loop ends only by an explicit quit: q ends it from every screen
\* when no confirmation is pending, enter on Main's Quit option ends it, and
\* no other key in any state returns the quit command; once it is returned
\* no key is handled any more.
C21_QuitOnlyExplicit ==
    [][/\ (key' = "q" /\ NotConfirming) => cmd' = "Quit"
       /\ (screen = "Main" /\ cursor = MainMaxCursor /\ key' = "enter") => cmd' = "Quit"
       /\ cmd' = "Quit" =>
            \/ key' = "q"
            \/ key' = "enter" /\ screen = "Main" /\ cursor = MainMaxCursor
       /\ cmd = "Quit" => UNCHANGED vars]_vars

C21_Witness == cmd = "Quit" /\ key = "enter" /\ screen = "Main" /\ cursor = MainMaxCursor

\* the keys of a structured record that hold a value to render
RecordKeys == {"timestamp", "level", "message", "data"}

KeysPresent(l) ==
    IF l.kind = "object" THEN {k \in RecordKeys : l[k] \notin NoField} ELSE {}

\* a line that is not of the structured record shape: not JSON, JSON that is
\* not an object, or an object with none of the four keys
NotARecord(l) ==
    \/ l.kind \in {"text", "value", "null"}
    \/ l.kind = "object" /\ \A k \in RecordKeys : l[k] = "absent"

\* what a rendered line shows: the raw line, or the keys of a record
Shows(rendered) ==
    {IF p.part = "humanTime" THEN "timestamp" ELSE p.part :
        p \in {q \in Range(rendered) : q.part # "space"}}

\* C22: when a log file is viewed, every non-blank line that is not of the
\* structured record shape is in logContent as its raw trimmed text, and no
\* error is raised; a record with some keys missing is rendered from the keys
\* present.
C22_MalformedLinesVerbatim ==
    [][(OnLogList /\ cursor < Len(logFiles) /\ key' = "v"
          /\ Succeeded("Open")' # {}) =>
         LET notBlank(l) == l.kind # "blank"
             shown == SelectSeq(lines, notBlank)
             out == logContent'[3]
         IN  /\ screen' = "LogView"
             /\ message' = message
             /\ Len(out) = Len(shown)
             /\ \A i \in DOMAIN shown :
                  /\ NotARecord(shown[i]) =>
                       out[i] = <<[of |-> [shown[i] EXCEPT !.pad = FALSE],
                                   part |-> "line", colour |-> "none"]>>
                  /\ (~NotARecord(shown[i]) /\ KeysPresent(shown[i]) # {}) =>
                       Shows(out[i]) = KeysPresent(shown[i])]_vars

\* C23: a confirmation flag is true only while screen = LogList, and no key
\* pressed while a confirmation is pending changes the screen.
C23_ConfirmationOnlyOnLogList ==
    /\ []((confirmingDelete \/ confirmingClear) => screen = "LogList")
    /\ [][(confirmingDelete \/ confirmingClear) => screen' = screen]_vars

C23_Witness == confirmingClear /\ key = "down" /\ screen = "LogList"

\* C24: while a global project is browsed (selectedProject non-empty), every
\* path in logFiles belongs to that project; a confirmed delete or bulk clear
\* does not replace logFiles with the local project's log paths.
C24_ListOfSelectedProject ==
    selectedProject # NoProject =>
        \A f \in Range(logFiles) : f[1] = selectedProject

\* C25: whenever LogList is entered from Main through 'View Logs', logFiles
\* holds log paths of the local project; the paths loaded for a global
\* project are not in logFiles after esc has returned to Main.
C25_ViewLogsShowsLocalProject ==
    [][/\ (screen = "Main" /\ cursor = 1 /\ key' = "enter") =>
            /\ screen' = "LogList"
            /\ selectedProject' = NoProject
            /\ Range(logFiles') \subseteq LocalFiles
       /\ (key' = "esc" /\ screen' = "Main") =>
            Range(logFiles') \subseteq LocalFiles]_vars

\* C26: on LogView the file name in the 'Viewing:' header is the name of the
\* file whose content logContent holds, the file that was at the cursor when
\* v was pressed.
C26_HeaderNamesViewedFile ==
    screen = "LogView" => renderLogView = Base(logContent[2])

\* C27: while a confirmation flag is true the status message is non-empty
\* (the prompt stays displayed), and during pending-delete deleteFileIndex
\* equals the cursor and is a valid index of logFiles.
C27_PromptStaysWhilePending ==
    /\ (confirmingDelete \/ confirmingClear) => message # NoMessage
    /\ confirmingDelete => deleteFileIndex = cursor /\ deleteFileIndex < Len(logFiles)

C27_Witness ==
    /\ confirmingDelete
    /\ key = "up"
    /\ cursor = 1
    /\ MessageKind = "DeletePrompt"

\* C28: from every state in which the loop runs, at most two consecutive esc
\* presses lead to Main with cursor 0, no message, no confirmation pending,
\* no logContent and no selectedProject: esc is always handled and never
\* quits, ends a pending confirmation, and goes to that state when none is
\* pending.
C28_TwoEscReachMain ==
    /\ [](Running => ENABLED KeyEsc)
    /\ [][key' = "esc" =>
            /\ Running'
            /\ IF confirmingDelete \/ confirmingClear
                 THEN ~confirmingDelete' /\ ~confirmingClear'
                 ELSE BackOnMain]_vars

C28_Witness == key = "esc" /\ screen = "LogList" /\ selectedProject # NoProject

====
